---- MODULE Spec2Model ----
(***************************************************************************)
(* The file-backed places store of src/tools/mcp_gourmet.py (and its older *)
(* copy src/tools/mcp-jason.py): six HTTP handlers over one JSON file, and *)
(* the asyncio lock file_lock taken by locked_file_operation.              *)
(*                                                                         *)
(* A request is one invocation of a handler.  A handler is cut into steps  *)
(* at its `await file_lock.acquire()` points and at the boundaries of the  *)
(* `async with locked_file_operation(...)` blocks; everything between two   *)
(* such points is synchronous Python and is one step.                      *)
(*                                                                         *)
(* The variable agent is the separate date-extraction service of           *)
(* src/langagent/datetime-agent/agent.py: one run of its two-node graph.   *)
(***************************************************************************)
EXTENDS Integers, Sequences, FiniteSets, TLC

(* ------------------------------ bounds --------------------------------- *)

\* number of requests (handler invocations) that may be in flight together
NReq == 2

\* number of calls a client that waits for each response makes in a row
MaxCalls == 4

\* number of calls of the client that replays the reference scenario
ScenarioCalls == 6

Reqs == 1 .. NReq

\* request payload values (all non-empty strings, so the handlers'
\* `if not place_name` / `if not type` checks pass)
Names == {"A", "B", "C"}
Types == {"food", "drink"}
Specialty == "x"

\* An optional value (Optional[...] in Python, a nullable value in JSON) is
\* a sequence of at most one element: None / null is the empty sequence.
None == << >>
Some(v) == <<v>>

\* menus: lists of single-entry dicts {dish: price}
Menu1 == << <<"rice", "100">> >>
Menu2 == << <<"tea", "55">>, <<"rice", "115">> >>

\* NewPlace.menu is Optional[List[MenuItem]], UpdateMenu.updated_menu a list
CreateMenus == {None, Some(Menu1)}
UpdateMenus == {<< >>, Menu1, Menu2}

(* --------------------------- dict helpers ------------------------------ *)

\* A dict is a sequence of <<key, value>> pairs in insertion order.
HasKey(d, k) == \E i \in 1 .. Len(d) : d[i][1] = k

\* d[k]
Get(d, k) == d[CHOOSE i \in 1 .. Len(d) : d[i][1] = k][2]

\* d[k] = v : replaces the value of an existing key in place, appends a new key
Put(d, k, v) ==
    IF HasKey(d, k)
    THEN [i \in 1 .. Len(d) |-> IF d[i][1] = k THEN <<k, v>> ELSE d[i]]
    ELSE Append(d, <<k, v>>)

\* NewPlace(...).model_dump(): the fields in declared order
ModelDump(new_place) ==
    << <<"name", new_place.name>>, <<"type", new_place.type>>,
       <<"specialty", new_place.specialty>>, <<"menu", new_place.menu>> >>

\* PlaceResponse(**place): keeps id, name, type, specialty
PlaceResponse(place) ==
    [id |-> Get(place, "id"), name |-> Get(place, "name"),
     type |-> Get(place, "type"), specialty |-> Get(place, "specialty")]

(* ----------------------- exceptions and responses ---------------------- *)

HTTPException(status_code, detail) ==
    [cls |-> "HTTPException", status_code |-> status_code, detail |-> detail]

\* str(err) of an HTTPException is "<status_code>: <detail>"
StrOf(err) ==
    IF err.cls = "HTTPException"
    THEN ToString(err.status_code) \o ": " \o err.detail
    ELSE err.detail

\* what the client receives
Ok(body) == [status |-> 200, body |-> body]
Err(exc) == [status |-> exc.status_code, body |-> exc.detail]

NoResponse == [status |-> 0, body |-> ""]

\* the `except HTTPException: raise` clause left out
CreateExcept_NoReraise(exc) == Err(HTTPException(500, StrOf(exc)))

\* create_place: except HTTPException -> re-raise; except Exception -> 500
CreateExcept(exc) ==
    IF exc.cls = "HTTPException"
    THEN Err(exc)
    ELSE Err(HTTPException(500, StrOf(exc)))

\* update_menu, delete_place, random_place:
\* except json.JSONDecodeError -> 400; except Exception -> 500.
\* HTTPException is an Exception, so it is caught by the second clause.
HandlerExcept(exc) ==
    IF exc.cls = "JSONDecodeError"
    THEN Err(HTTPException(400, "Invalid JSON format"))
    ELSE Err(HTTPException(500, StrOf(exc)))

\* query_menu: except json.JSONDecodeError -> 400; anything else propagates
QueryExcept(exc) ==
    IF exc.cls = "JSONDecodeError"
    THEN Err(HTTPException(400, "Invalid JSON format"))
    ELSE IF exc.cls = "HTTPException" THEN Err(exc)
    ELSE Err(HTTPException(500, "Internal Server Error"))

(* ------------------------- in-memory handler code ---------------------- *)

\* index of the first place named name, 0 when there is none
FirstNamed(places, name) ==
    IF \E i \in 1 .. Len(places) : Get(places[i], "name") = name
    THEN CHOOSE i \in 1 .. Len(places) :
            /\ Get(places[i], "name") = name
            /\ \A j \in 1 .. i - 1 : Get(places[j], "name") # name
    ELSE 0

\* the repeat check left out
IsRepeated_Skipped(places, name) == FALSE

\* create_place "Check Repeat"
IsRepeated(places, name) ==
    \E i \in 1 .. Len(places) : Get(places[i], "name") = name

\* the "+ 1" left out
NewId_NoIncrement(places) ==
    IF Len(places) > 0 THEN Get(places[Len(places)], "id") ELSE 0

\* the id taken from the first record instead of the last
NewId_First(places) ==
    (IF Len(places) > 0 THEN Get(places[1], "id") ELSE 0) + 1

\* the number of records taken for the latest id
NewId_Len(places) == Len(places) + 1

\* create_place "Get Latest ID"
NewId(places) ==
    (IF Len(places) > 0 THEN Get(places[Len(places)], "id") ELSE 0) + 1

\* the id added after the dumped fields
OrderedDict_IdLast(new_id, new_place) ==
    ModelDump(new_place) \o << <<"id", new_id>> >>

\* create_place "Re-Order": id first, then the dumped fields
OrderedDict(new_id, new_place) ==
    << <<"id", new_id>> >> \o ModelDump(new_place)

\* the menu assigned to every record, the name test left out
SetMenu_All(places, name, updated_menu) ==
    [i \in 1 .. Len(places) |-> Put(places[i], "menu", updated_menu)]

\* the new items added to the menu the record already has
SetMenu_Merge(places, name, updated_menu) ==
    [i \in 1 .. Len(places) |->
        IF i = FirstNamed(places, name)
        THEN Put(places[i], "menu",
                 IF HasKey(places[i], "menu") /\ Get(places[i], "menu") # None
                 THEN Some(Get(places[i], "menu")[1] \o updated_menu[1])
                 ELSE updated_menu)
        ELSE places[i]]

\* update_menu loop: place["menu"] = updated_menu on the first match
SetMenu(places, name, updated_menu) ==
    [i \in 1 .. Len(places) |->
        IF i = FirstNamed(places, name)
        THEN Put(places[i], "menu", updated_menu)
        ELSE places[i]]

\* the last record deleted instead of the matching one
DelPlace_Last(places, name) == SubSeq(places, 1, Len(places) - 1)

\* delete_place loop: del places_data[_] on the first match
DelPlace(places, name) ==
    LET k == FirstNamed(places, name)
    IN  [i \in 1 .. Len(places) - 1 |-> IF i < k THEN places[i] ELSE places[i + 1]]

\* random_place filter
FilterType(places, place_type) ==
    SelectSeq(places, LAMBDA p : Get(p, "type") = place_type)

(* ------------------------------- state --------------------------------- *)

VARIABLES
    file,          \* content of the file at places_path: the JSON array
    file_lock,     \* asyncio.Lock: 0 when free, else the request holding it
    pc,            \* pc[r]: where request r is in its handler
    req,           \* req[r]: handler and payload of request r
    places_data,   \* places_data[r]: the handler's local copy of the array
    response,      \* response[r]: what the client of r received
    calls,         \* number of handler invocations so far
    returned,      \* ids of the new_place of each 200 answer of create_place,
                   \* in the order the answers were sent
    disk,          \* state of the bytes at places_path, see DiskStates
    io,            \* the I/O call that currently fails, see IoStates
    agent          \* the run of the date-extraction graph of
                   \* src/langagent/datetime-agent/agent.py, see AgentIdle

vars == <<file, file_lock, pc, req, places_data, response, calls, returned,
          disk, io, agent>>

\* the variables of the places store
storeVars == <<file, file_lock, pc, req, places_data, response, calls, returned,
               disk, io>>

NoReq == [op |-> "none"]

CreateReqs ==
    {[op |-> "create_place",
      new_place |-> [name |-> n, type |-> t, specialty |-> Specialty, menu |-> m]] :
        n \in Names, t \in Types, m \in CreateMenus}
UpdateReqs ==
    {[op |-> "update_menu", place_name |-> n, updated_menu |-> m] :
        n \in Names, m \in UpdateMenus}
DeleteReqs == {[op |-> "delete_place", place_name |-> n] : n \in Names}
RandomReqs == {[op |-> "random_place", type |-> t] : t \in Types}
\* the query parameter `type` is absent, or any string, the empty one included
GetReqs ==
    {[op |-> "get_places", type |-> t] :
        t \in {None} \cup {Some(t) : t \in Types \cup {""}}}
QueryReqs == {[op |-> "query_menu", place_name |-> n] : n \in Names}

(* ---------- the date-extraction graph of datetime-agent/agent.py -------- *)

\* DateExtractionRequest.output_format
OutputFormats == {"iso8601", "timestamp", "readable"}

\* number of entries of the "dates" list in a reply of the model
MaxDates == 2

\* an entry of "dates": a dict with start_datetime an ISO text ("iso"), some
\* other text ("bad") or missing ("none"), with or without end_datetime; or
\* a JSON value that is not a dict
DateItems ==
    {[isdict |-> TRUE, start_datetime |-> s, end_datetime |-> e] :
        s \in {"iso", "bad", "none"}, e \in {"iso", "none"}}
    \cup {[isdict |-> FALSE, start_datetime |-> "none", end_datetime |-> "none"]}

DateLists == UNION {[1 .. n -> DateItems] : n \in 0 .. MaxDates}

\* what the JSON text in the reply of the model is: not JSON at all, a JSON
\* list, or a dict whose "dates" key is missing, null or a list
JsonTexts ==
    {[kind |-> "invalid", dates_key |-> "absent", dates |-> << >>],
     [kind |-> "list", dates_key |-> "absent", dates |-> << >>],
     [kind |-> "dict", dates_key |-> "absent", dates |-> << >>],
     [kind |-> "dict", dates_key |-> "null", dates |-> << >>]}
    \cup {[kind |-> "dict", dates_key |-> "list", dates |-> d] : d \in DateLists}

\* response.content: the JSON text bare ("none"), in a ```json fence
\* ("json"), in a ``` fence ("plain") or in a fence with another language
\* tag ("tagged"); llm.invoke can also raise
Fences == {"none", "json", "plain", "tagged"}
LlmReplies ==
    {[raised |-> TRUE, fence |-> "none", text |-> t] :
        t \in {[kind |-> "invalid", dates_key |-> "absent", dates |-> << >>]}}
    \cup {[raised |-> FALSE, fence |-> f, text |-> t] : f \in Fences, t \in JsonTexts}

\* the split of content on the fences followed by json.loads: in a fence
\* with another tag the tag stays in json_str, which then is not JSON
JsonLoads(reply) ==
    IF reply.fence = "tagged"
    THEN [kind |-> "invalid", dates_key |-> "absent", dates |-> << >>]
    ELSE reply.text

\* the initial DateExtractionState that /extract passes to agent.invoke
InitialState == [error |-> None, extracted_dates |-> None, formatted_output |-> None]

\* extract_dates_node: llm.invoke, json.loads and result.get("dates", []);
\* any exception (also result not being a dict) sets "error"
extract_dates_node(state, reply) ==
    LET result == JsonLoads(reply)
    IN  IF reply.raised \/ result.kind # "dict"
        THEN [state EXCEPT !.error = Some("date extraction failed"),
                           !.extracted_dates = Some(<< >>)]
        ELSE [state EXCEPT !.extracted_dates =
                IF result.dates_key = "null" THEN None ELSE Some(result.dates)]

\* the edge taken to the format node whatever the state
should_continue_Always(state) == "format"

\* should_continue: the conditional edge after extract
should_continue(state) ==
    IF state.error # None /\ state.error[1] # "" THEN "end" ELSE "format"

\* format_dates_node on one entry: datetime.fromisoformat raises inside the
\* try for a start or end that is not ISO text (not for iso8601 output,
\* which copies the texts); the entry then becomes an error entry
FormatOne(date_info, output_format) ==
    IF output_format # "iso8601" /\ date_info.start_datetime # "iso"
    THEN [error |-> TRUE, has_end |-> FALSE]
    ELSE [error |-> FALSE, has_end |-> date_info.end_datetime # "none"]

\* format_dates_node raises: an entry that is not a dict has no .get, in the
\* try block and again in its except block
FormatRaises(state) ==
    /\ state.extracted_dates # None
    /\ \E i \in 1 .. Len(state.extracted_dates[1]) :
            ~state.extracted_dates[1][i].isdict

\* format_dates_node: the fixed text when there are no dates, else the JSON
\* text of the formatted entries
format_dates_node(state, output_format) ==
    IF state.extracted_dates = None \/ state.extracted_dates[1] = << >>
    THEN [state EXCEPT !.formatted_output = Some([json |-> FALSE, items |-> << >>])]
    ELSE [state EXCEPT !.formatted_output =
            Some([json |-> TRUE,
                  items |-> [i \in 1 .. Len(state.extracted_dates[1]) |->
                                FormatOne(state.extracted_dates[1][i], output_format)]])]

\* no call of /extract yet
AgentIdle ==
    [node |-> "idle", output_format |-> "", state |-> InitialState, ran |-> << >>,
     answer |-> [status |-> 0, success |-> FALSE, extracted_dates |-> 0,
                 formatted_output |-> None]]

\* POST /extract: agent.invoke(...) enters the graph at its entry point
ExtractInvoke ==
    /\ agent.node = "idle"
    /\ \E f \in OutputFormats :
        agent' = [agent EXCEPT !.node = "extract", !.output_format = f,
                               !.state = InitialState]
    /\ UNCHANGED storeVars

\* the extract node runs, then its conditional edge is followed
ExtractNode ==
    /\ agent.node = "extract"
    /\ \E reply \in LlmReplies :
        LET state == extract_dates_node(agent.state, reply)
        IN  agent' = [agent EXCEPT
                !.state = state,
                !.ran = Append(@, "extract"),
                !.node = IF should_continue(state) = "end" THEN "END" ELSE "format"]
    /\ UNCHANGED storeVars

\* the format node runs, then its edge to END is followed; an exception of
\* the node ends the run
FormatNode ==
    /\ agent.node = "format"
    /\ IF FormatRaises(agent.state)
       THEN agent' = [agent EXCEPT !.ran = Append(@, "format"), !.node = "raised"]
       ELSE agent' = [agent EXCEPT
                !.state = format_dates_node(agent.state, agent.output_format),
                !.ran = Append(@, "format"),
                !.node = "END"]
    /\ UNCHANGED storeVars

\* the number of DateInfo that /extract builds from formatted_output:
\* json.loads fails on the fixed text, and DateInfo(**item) fails on an
\* entry whose start is the integer of the timestamp format (start is
\* Optional[str]); the bare except then gives the empty list.  Entries are
\* taken to carry a text original_text.
DateInfos(formatted_output, output_format) ==
    LET out == formatted_output[1]
    IN  IF ~out.json THEN 0
        ELSE IF output_format = "timestamp"
                /\ \E i \in 1 .. Len(out.items) : ~out.items[i].error
        THEN 0
        ELSE Len(out.items)

\* /extract after agent.invoke returned or raised
ExtractRespond ==
    /\ agent.node \in {"END", "raised"}
    /\ agent' = [agent EXCEPT
            !.node = "answered",
            !.answer =
                IF agent.node = "raised"
                THEN [status |-> 500, success |-> FALSE, extracted_dates |-> 0,
                      formatted_output |-> None]
                ELSE IF agent.state.error # None /\ agent.state.error[1] # ""
                THEN [status |-> 200, success |-> FALSE, extracted_dates |-> 0,
                      formatted_output |-> None]
                ELSE [status |-> 200, success |-> TRUE,
                      extracted_dates |->
                          DateInfos(agent.state.formatted_output, agent.output_format),
                      formatted_output |-> agent.state.formatted_output]]
    /\ UNCHANGED storeVars

AgentNext == ExtractInvoke \/ ExtractNode \/ FormatNode \/ ExtractRespond

\* the bytes at places_path: "valid" when they are the JSON encoding of
\* file, "truncated" when the file is empty (opened with mode "w" and nothing
\* written), "partial" when json.dump stopped part-way
DiskStates == {"valid", "truncated", "partial"}

\* the I/O call that the operating system currently fails, "ok" for none
IoStates == {"ok", "open", "read", "write"}

NoExc == [cls |-> "none", status_code |-> 0, detail |-> ""]
OSError == [cls |-> "OSError", status_code |-> 0, detail |-> "[Errno 5] Input/output error"]
JSONDecodeError ==
    [cls |-> "JSONDecodeError", status_code |-> 0,
     detail |-> "Expecting value: line 1 column 1 (char 0)"]

Init ==
    /\ file = << >>
    /\ file_lock = 0
    /\ pc = [r \in Reqs |-> "idle"]
    /\ req = [r \in Reqs |-> NoReq]
    /\ places_data = [r \in Reqs |-> << >>]
    /\ response = [r \in Reqs |-> NoResponse]
    /\ calls = 0
    /\ returned = << >>
    /\ disk = "valid"
    /\ io = "ok"
    /\ agent = AgentIdle

\* requests are interchangeable: they arrive in index order
MayArrive(r) ==
    /\ pc[r] = "idle"
    /\ \A q \in Reqs : q < r => pc[q] # "idle"

\* the handler returns or raises: its locals are gone, the client has resp
Finish(r, resp) ==
    /\ pc' = [pc EXCEPT ![r] = "done"]
    /\ response' = [response EXCEPT ![r] = resp]
    /\ places_data' = [places_data EXCEPT ![r] = << >>]

\* an exception no handler clause catches: the server answers 500
Unhandled(exc) == Err(HTTPException(500, "Internal Server Error"))

(* ------------------------ locked_file_operation ------------------------ *)

\* the acquire that does not wait for the lock to be free
Acquire_NoWait(r) ==
    /\ pc[r] \in {"acquire_r", "acquire_w"}
    /\ file_lock' = r
    /\ pc' = [pc EXCEPT ![r] = IF pc[r] = "acquire_r" THEN "load" ELSE "dump"]
    /\ UNCHANGED <<file, req, places_data, response, calls, returned, disk, io, agent>>

\* await file_lock.acquire(), for mode "r" and for mode "w"
Acquire(r) ==
    /\ pc[r] \in {"acquire_r", "acquire_w"}
    /\ file_lock = 0
    /\ file_lock' = r
    /\ pc' = [pc EXCEPT ![r] = IF pc[r] = "acquire_r" THEN "load" ELSE "dump"]
    /\ UNCHANGED <<file, req, places_data, response, calls, returned, disk, io, agent>>

\* the lock kept after the block: the handler still holds it when it
\* requests it for its next block
Released_Kept(r, exc) == r

\* the release written after the block instead of in a finally clause
Released_NoFinally(r, exc) == IF exc.cls = "none" THEN 0 ELSE r

\* finally: file_lock.release() -- whatever the block raised (exc)
Released(r, exc) == 0

\* a json.load that takes unparsable content for the empty array
ReadRaises_NoParseError ==
    IF io \in {"open", "read"} THEN OSError ELSE NoExc

\* open(places_path, "r") and json.load(file): what they raise
ReadRaises ==
    IF io \in {"open", "read"} THEN OSError
    ELSE IF disk # "valid" THEN JSONDecodeError
    ELSE NoExc

\* open(places_path, "w") and json.dump(places_data, file): what they raise
WriteRaises ==
    IF io \in {"open", "write"} THEN OSError ELSE NoExc

\* open(places_path, "w") truncates the file, json.dump then writes it
WriteFile(r) ==
    IF io = "open"
    THEN UNCHANGED <<file, disk>>
    ELSE IF io = "write"
         THEN file' = << >> /\ disk' \in {"truncated", "partial"}
         ELSE file' = places_data[r] /\ disk' = "valid"

\* a request arrives: the handler is called with its validated payload;
\* the client makes at most bound calls
InvokeWithin(r, payload, bound) ==
    /\ MayArrive(r)
    /\ calls < bound
    /\ calls' = calls + 1
    /\ req' = [req EXCEPT ![r] = payload]
    /\ UNCHANGED <<file, file_lock, returned, disk, io, agent>>

Invoke(r, payload) == InvokeWithin(r, payload, MaxCalls)

(* ----------------------------- create_place ---------------------------- *)

\* create_place is called with payload: nothing happens before the first await
CreateCall(r, payload, bound) ==
    /\ InvokeWithin(r, payload, bound)
    /\ pc' = [pc EXCEPT ![r] = "acquire_r"]
    /\ UNCHANGED <<response, places_data>>

CreateInvoke(r) ==
    \E payload \in CreateReqs : CreateCall(r, payload, MaxCalls)

\* ids counted on from the highest id ever returned, so that none is reused
CreateLoad_NeverReused(r) ==
    /\ pc[r] = "load"
    /\ req[r].op = "create_place"
    /\ file_lock' = Released(r, ReadRaises)
    /\ IF ReadRaises.cls # "none"
       THEN Finish(r, CreateExcept(ReadRaises))
       ELSE IF IsRepeated(file, req[r].new_place.name)
       THEN /\ Finish(r, CreateExcept(HTTPException(400, "Your place is repeated.")))
       ELSE /\ places_data' = [places_data EXCEPT ![r] =
                    Append(file, OrderedDict(
                        LET given == {returned[i] : i \in 1 .. Len(returned)}
                                \cup {Get(file[i], "id") : i \in 1 .. Len(file)}
                        IN  (IF given = {} THEN 0
                             ELSE CHOOSE m \in given : \A x \in given : x <= m) + 1,
                        req[r].new_place))]
            /\ pc' = [pc EXCEPT ![r] = "acquire_w"]
            /\ UNCHANGED response
    /\ UNCHANGED <<file, req, calls, returned, disk, io, agent>>

\* the new record inserted at the front of the list instead of appended
CreateLoad_Prepend(r) ==
    /\ pc[r] = "load"
    /\ req[r].op = "create_place"
    /\ file_lock' = Released(r, ReadRaises)
    /\ IF ReadRaises.cls # "none"
       THEN Finish(r, CreateExcept(ReadRaises))
       ELSE IF IsRepeated(file, req[r].new_place.name)
       THEN /\ Finish(r, CreateExcept(HTTPException(400, "Your place is repeated.")))
       ELSE /\ places_data' = [places_data EXCEPT ![r] =
                    <<OrderedDict(NewId(file), req[r].new_place)>> \o file]
            /\ pc' = [pc EXCEPT ![r] = "acquire_w"]
            /\ UNCHANGED response
    /\ UNCHANGED <<file, req, calls, returned, disk, io, agent>>

\* json.load under the lock, release, then the synchronous code up to the
\* second `async with`
CreateLoad(r) ==
    /\ pc[r] = "load"
    /\ req[r].op = "create_place"
    /\ file_lock' = Released(r, ReadRaises)
    /\ IF ReadRaises.cls # "none"
       THEN Finish(r, CreateExcept(ReadRaises))
       ELSE IF IsRepeated(file, req[r].new_place.name)
       THEN /\ Finish(r, CreateExcept(HTTPException(400, "Your place is repeated.")))
       ELSE /\ places_data' = [places_data EXCEPT ![r] =
                    Append(file, OrderedDict(NewId(file), req[r].new_place))]
            /\ pc' = [pc EXCEPT ![r] = "acquire_w"]
            /\ UNCHANGED response
    /\ UNCHANGED <<file, req, calls, returned, disk, io, agent>>

\* json.dump under the lock, release, return
CreateDump(r) ==
    /\ pc[r] = "dump"
    /\ req[r].op = "create_place"
    /\ WriteFile(r)
    /\ file_lock' = Released(r, WriteRaises)
    /\ IF WriteRaises.cls # "none"
       THEN /\ Finish(r, CreateExcept(WriteRaises))
            /\ UNCHANGED returned
       ELSE /\ Finish(r, Ok([message |-> "Place created successfully",
                             new_place |-> places_data[r][Len(places_data[r])]]))
            /\ returned' = Append(returned,
                                  Get(places_data[r][Len(places_data[r])], "id"))
    /\ UNCHANGED <<req, calls, io, agent>>

(* ----------------------------- update_menu ----------------------------- *)

\* payload checks before the first await
UpdateInvoke(r) ==
    \E payload \in UpdateReqs :
        /\ Invoke(r, payload)
        /\ IF payload.place_name = ""
           THEN Finish(r, HandlerExcept(HTTPException(400, "place_name is required")))
           ELSE /\ pc' = [pc EXCEPT ![r] = "acquire_r"]
                /\ UNCHANGED <<response, places_data>>

UpdateLoad(r) ==
    /\ pc[r] = "load"
    /\ req[r].op = "update_menu"
    /\ file_lock' = Released(r, ReadRaises)
    /\ IF ReadRaises.cls # "none"
       THEN Finish(r, HandlerExcept(ReadRaises))
       ELSE IF FirstNamed(file, req[r].place_name) = 0
       THEN /\ Finish(r, HandlerExcept(HTTPException(404, "Place not found")))
       ELSE /\ places_data' = [places_data EXCEPT ![r] =
                    SetMenu(file, req[r].place_name, Some(req[r].updated_menu))]
            /\ pc' = [pc EXCEPT ![r] = "acquire_w"]
            /\ UNCHANGED response
    /\ UNCHANGED <<file, req, calls, returned, disk, io, agent>>

UpdateDump(r) ==
    /\ pc[r] = "dump"
    /\ req[r].op = "update_menu"
    /\ WriteFile(r)
    /\ file_lock' = Released(r, WriteRaises)
    /\ IF WriteRaises.cls # "none"
       THEN Finish(r, HandlerExcept(WriteRaises))
       ELSE Finish(r, Ok([message |-> "Menu updated successfully"]))
    /\ UNCHANGED <<req, calls, returned, io, agent>>

(* ----------------------------- delete_place ---------------------------- *)

\* delete_place is called with payload: the payload check before the first await
DeleteCall(r, payload, bound) ==
    /\ InvokeWithin(r, payload, bound)
    /\ IF payload.place_name = ""
       THEN Finish(r, HandlerExcept(HTTPException(400, "place_name is required")))
       ELSE /\ pc' = [pc EXCEPT ![r] = "acquire_r"]
            /\ UNCHANGED <<response, places_data>>

DeleteInvoke(r) ==
    \E payload \in DeleteReqs : DeleteCall(r, payload, MaxCalls)

\* the `if not found` check left out
DeleteLoad_NoFoundCheck(r) ==
    /\ pc[r] = "load"
    /\ req[r].op = "delete_place"
    /\ file_lock' = Released(r, ReadRaises)
    /\ IF ReadRaises.cls # "none"
       THEN Finish(r, HandlerExcept(ReadRaises))
       ELSE /\ places_data' = [places_data EXCEPT ![r] =
                    IF FirstNamed(file, req[r].place_name) = 0
                    THEN file
                    ELSE DelPlace(file, req[r].place_name)]
            /\ pc' = [pc EXCEPT ![r] = "acquire_w"]
            /\ UNCHANGED response
    /\ UNCHANGED <<file, req, calls, returned, disk, io, agent>>

DeleteLoad(r) ==
    /\ pc[r] = "load"
    /\ req[r].op = "delete_place"
    /\ file_lock' = Released(r, ReadRaises)
    /\ IF ReadRaises.cls # "none"
       THEN Finish(r, HandlerExcept(ReadRaises))
       ELSE IF FirstNamed(file, req[r].place_name) = 0
       THEN /\ Finish(r, HandlerExcept(HTTPException(404, "Place not found")))
       ELSE /\ places_data' = [places_data EXCEPT ![r] =
                    DelPlace(file, req[r].place_name)]
            /\ pc' = [pc EXCEPT ![r] = "acquire_w"]
            /\ UNCHANGED response
    /\ UNCHANGED <<file, req, calls, returned, disk, io, agent>>

DeleteDump(r) ==
    /\ pc[r] = "dump"
    /\ req[r].op = "delete_place"
    /\ WriteFile(r)
    /\ file_lock' = Released(r, WriteRaises)
    /\ IF WriteRaises.cls # "none"
       THEN Finish(r, HandlerExcept(WriteRaises))
       ELSE Finish(r, Ok([message |-> "Place deleted successfully"]))
    /\ UNCHANGED <<req, calls, returned, io, agent>>

(* ----------------------------- random_place ---------------------------- *)

RandomInvoke(r) ==
    \E payload \in RandomReqs :
        /\ Invoke(r, payload)
        /\ IF payload.type = ""
           THEN Finish(r, HandlerExcept(HTTPException(400, "type is required")))
           ELSE /\ pc' = [pc EXCEPT ![r] = "acquire_r"]
                /\ UNCHANGED <<response, places_data>>

\* random.choice is any element of the filtered list
RandomLoad(r) ==
    /\ pc[r] = "load"
    /\ req[r].op = "random_place"
    /\ file_lock' = Released(r, ReadRaises)
    /\ IF ReadRaises.cls # "none"
       THEN Finish(r, HandlerExcept(ReadRaises))
       ELSE LET filtered_places == FilterType(file, req[r].type)
            IN  IF filtered_places = << >>
                THEN Finish(r, HandlerExcept(
                         HTTPException(404, "No places found with the specified type")))
                ELSE \E i \in 1 .. Len(filtered_places) :
                         Finish(r, Ok([random_place |-> filtered_places[i]]))
    /\ UNCHANGED <<file, req, calls, returned, disk, io, agent>>

(* ------------------------ get_places, query_menu ----------------------- *)

\* the filter applied whenever the parameter is given (`if type is not None:`)
GetPlacesResult_IsNotNone(places, type) ==
    LET all == [i \in 1 .. Len(places) |-> PlaceResponse(places[i])]
    IN  IF type # None
        THEN SelectSeq(all, LAMBDA p : p.type = type[1])
        ELSE all

\* get_places has no await: the handler is one step.  `if type:` is false
\* for None and for the empty string.
GetPlacesResult(places, type) ==
    LET all == [i \in 1 .. Len(places) |-> PlaceResponse(places[i])]
    IN  IF type # None /\ type[1] # ""
        THEN SelectSeq(all, LAMBDA p : p.type = type[1])
        ELSE all

\* get_places has no try block: what open or json.load raises is unhandled
GetPlacesCall(r, payload, bound) ==
    /\ InvokeWithin(r, payload, bound)
    /\ IF ReadRaises.cls # "none"
       THEN Finish(r, Unhandled(ReadRaises))
       ELSE Finish(r, Ok(GetPlacesResult(file, payload.type)))

GetPlaces(r) ==
    \E payload \in GetReqs : GetPlacesCall(r, payload, MaxCalls)

\* query_menu of mcp_gourmet.py: the loop runs to the first match
QueryMenuResult(places, query_name) ==
    IF query_name = ""
    THEN QueryExcept(HTTPException(400, "place_name is required"))
    ELSE IF FirstNamed(places, query_name) # 0
         THEN Ok([menu |-> Get(places[FirstNamed(places, query_name)], "menu")])
         ELSE Ok([status |-> "not registered"])

QueryMenu(r) ==
    \E payload \in QueryReqs :
        /\ Invoke(r, payload)
        /\ IF ReadRaises.cls # "none"
           THEN Finish(r, QueryExcept(ReadRaises))
           ELSE Finish(r, QueryMenuResult(file, payload.place_name))

\* query_menu of mcp-jason.py: the loop body returns on the first record,
\* matching or not, and the line after the loop raises
QueryMenuResultJason(places, query_name) ==
    IF query_name = ""
    THEN QueryExcept(HTTPException(400, "place_name is required"))
    ELSE IF Len(places) = 0
         THEN QueryExcept(HTTPException(404, "Retrieving Menu Error."))
         ELSE IF Get(places[1], "name") = query_name
              THEN Ok([menu |-> Get(places[1], "menu")])
              ELSE Ok([status |-> "not registered"])

QueryMenuJason(r) ==
    \E payload \in QueryReqs :
        /\ Invoke(r, payload)
        /\ IF ReadRaises.cls # "none"
           THEN Finish(r, QueryExcept(ReadRaises))
           ELSE Finish(r, QueryMenuResultJason(file, payload.place_name))

(* --------------------------- specifications ---------------------------- *)

\* the response of r has been delivered and its client calls again
ReturnWithin(r, bound) ==
    /\ pc[r] = "done"
    /\ calls < bound
    /\ pc' = [pc EXCEPT ![r] = "idle"]
    /\ req' = [req EXCEPT ![r] = NoReq]
    /\ response' = [response EXCEPT ![r] = NoResponse]
    /\ UNCHANGED <<file, file_lock, places_data, calls, returned, disk, io, agent>>

Return(r) == ReturnWithin(r, MaxCalls)

Next ==
    \E r \in Reqs :
        \/ Acquire(r)
        \/ CreateInvoke(r) \/ CreateLoad(r) \/ CreateDump(r)
        \/ UpdateInvoke(r) \/ UpdateLoad(r) \/ UpdateDump(r)
        \/ DeleteInvoke(r) \/ DeleteLoad(r) \/ DeleteDump(r)
        \/ RandomInvoke(r) \/ RandomLoad(r)
        \/ GetPlaces(r)
        \/ QueryMenu(r)

Spec == Init /\ [][Next]_vars

\* request r is inside a handler that takes file_lock: called and not yet
\* answered
Started(r) == pc[r] \in {"acquire_r", "load", "acquire_w", "dump"}

\* a step of request r after its handler was called: the event loop runs
\* every task that is ready
Run(r) ==
    \/ Acquire(r)
    \/ CreateLoad(r) \/ CreateDump(r)
    \/ UpdateLoad(r) \/ UpdateDump(r)
    \/ DeleteLoad(r) \/ DeleteDump(r)
    \/ RandomLoad(r)

\* payloads for the handlers that take file_lock, enough for each of them
\* to succeed, to find a duplicate and to find nothing
LockReqs ==
    {c \in CreateReqs : c.new_place.name \in {"A", "B"} /\ c.new_place.type = "food"
                            /\ c.new_place.menu = None}
    \cup {u \in UpdateReqs : u.place_name = "A" /\ u.updated_menu = Menu1}
    \cup {d \in DeleteReqs : d.place_name \in {"A", "B"}}
    \cup RandomReqs

\* the handlers that take file_lock, in flight together, called with the
\* payloads of LockReqs
LockNext ==
    \E r \in Reqs :
        /\ \/ Acquire(r)
           \/ CreateInvoke(r) \/ CreateLoad(r) \/ CreateDump(r)
           \/ UpdateInvoke(r) \/ UpdateLoad(r) \/ UpdateDump(r)
           \/ DeleteInvoke(r) \/ DeleteLoad(r) \/ DeleteDump(r)
           \/ RandomInvoke(r) \/ RandomLoad(r)
        /\ req'[r] \in LockReqs

\* with the event loop's scheduling: a handler that can take its next step
\* is not left waiting forever
FairSpec == Init /\ [][LockNext]_vars /\ \A r \in Reqs : WF_vars(Run(r))

\* an acquire that always gives control back to the event loop first
Suspended_AtEveryAcquire(r) == pc[r] \in {"acquire_r", "acquire_w"}

\* the task of request r is suspended: asyncio.Lock.acquire() returns at
\* once when the lock is free and waits on a future only when it is held;
\* the handlers have no other await that can suspend
Suspended(r) == pc[r] \in {"acquire_r", "acquire_w"} /\ file_lock # 0

\* all handlers on one event loop: a task that has started keeps the loop
\* until it is suspended or has finished, and only then does another run
LoopNext ==
    \E r \in Reqs :
        /\ \A q \in Reqs \ {r} : Started(q) => Suspended(q)
        /\ \/ Acquire(r)
           \/ CreateInvoke(r) \/ CreateLoad(r) \/ CreateDump(r)
           \/ UpdateInvoke(r) \/ UpdateLoad(r) \/ UpdateDump(r)
           \/ DeleteInvoke(r) \/ DeleteLoad(r) \/ DeleteDump(r)
           \/ RandomInvoke(r) \/ RandomLoad(r)
           \/ GetPlaces(r)
           \/ QueryMenu(r)

LoopSpec == Init /\ [][LoopNext]_vars

\* one client that waits for each response before its next call: no two
\* handlers overlap
SeqNext ==
    \/ Acquire(1)
    \/ CreateInvoke(1) \/ CreateLoad(1) \/ CreateDump(1)
    \/ UpdateInvoke(1) \/ UpdateLoad(1) \/ UpdateDump(1)
    \/ DeleteInvoke(1) \/ DeleteLoad(1) \/ DeleteDump(1)
    \/ RandomInvoke(1) \/ RandomLoad(1)
    \/ GetPlaces(1)
    \/ QueryMenu(1)
    \/ Return(1)

SeqSpec == Init /\ [][SeqNext]_vars

\* the same client making create_place calls only
CreatesNext ==
    \/ Acquire(1)
    \/ CreateInvoke(1) \/ CreateLoad(1) \/ CreateDump(1)
    \/ Return(1)

CreatesSpec == Init /\ [][CreatesNext]_vars

\* the sequential client on the server of mcp-jason.py, whose handlers are
\* those of mcp_gourmet.py except query_menu
JasonNext ==
    \/ Acquire(1)
    \/ CreateInvoke(1) \/ CreateLoad(1) \/ CreateDump(1)
    \/ UpdateInvoke(1) \/ UpdateLoad(1) \/ UpdateDump(1)
    \/ DeleteInvoke(1) \/ DeleteLoad(1) \/ DeleteDump(1)
    \/ RandomInvoke(1) \/ RandomLoad(1)
    \/ GetPlaces(1)
    \/ QueryMenuJason(1)
    \/ Return(1)

JasonSpec == Init /\ [][JasonNext]_vars

\* the payloads of the reference scenario: places A (food) and B (drink)
\* created without a menu, the listing with and without the food filter,
\* and the deletion of A
PlaceA == [name |-> "A", type |-> "food", specialty |-> Specialty, menu |-> None]
PlaceB == [name |-> "B", type |-> "drink", specialty |-> Specialty, menu |-> None]
ScenarioCreates == {[op |-> "create_place", new_place |-> p] : p \in {PlaceA, PlaceB}}
ScenarioGets == {[op |-> "get_places", type |-> t] : t \in {None, Some("food")}}
ScenarioDeletes == {[op |-> "delete_place", place_name |-> "A"]}

ScenarioCreate(r) ==
    \E payload \in ScenarioCreates : CreateCall(r, payload, ScenarioCalls)
ScenarioDelete(r) ==
    \E payload \in ScenarioDeletes : DeleteCall(r, payload, ScenarioCalls)
ScenarioGet(r) ==
    \E payload \in ScenarioGets : GetPlacesCall(r, payload, ScenarioCalls)

\* one client that makes the calls of the reference scenario, in any order,
\* each after the response to the one before
ScenarioNext ==
    \/ Acquire(1)
    \/ ScenarioCreate(1) \/ CreateLoad(1) \/ CreateDump(1)
    \/ ScenarioDelete(1) \/ DeleteLoad(1) \/ DeleteDump(1)
    \/ ScenarioGet(1)
    \/ ReturnWithin(1, ScenarioCalls)

ScenarioSpec == Init /\ [][ScenarioNext]_vars

\* one call of /extract of the date-extraction agent
AgentSpec == Init /\ [][AgentNext]_vars

\* the operating system starts or stops failing one of the I/O calls
SetIo ==
    /\ io' \in IoStates \ {io}
    /\ UNCHANGED <<file, file_lock, pc, req, places_data, response, calls,
                   returned, disk, agent>>

\* the sequential client on storage whose I/O calls can fail
FaultNext == SeqNext \/ SetIo

FaultSpec == Init /\ [][FaultNext]_vars

(* ------------------------- notions used by the claims ------------------ *)

Invoked == {r \in Reqs : pc[r] # "idle"}

\* every request that arrived has been answered and none was called twice
Quiescent ==
    /\ Invoked # {}
    /\ calls = Cardinality(Invoked)
    /\ \A r \in Invoked : pc[r] = "done"

IdsOf(places) == {Get(places[i], "id") : i \in 1 .. Len(places)}
NamesOf(places) == {Get(places[i], "name") : i \in 1 .. Len(places)}

MaxOf(S) == IF S = {} THEN 0 ELSE CHOOSE m \in S : \A x \in S : x <= m

Mutating == {"create_place", "update_menu", "delete_place"}

\* request r takes the step that ends its read phase
LoadStep(r) == pc[r] = "load" /\ pc'[r] # "load"

\* request r takes the step that ends its write phase
DumpStep(r) == pc[r] = "dump" /\ pc'[r] # "dump"

(* ------------------------------- C1 ------------------------------------ *)

C2_LockHeldFromLoadToPersist ==
    \A r \in Reqs :
        (req[r].op \in Mutating /\ pc[r] \in {"load", "acquire_w", "dump"})
            => file_lock = r

(* ------------------------------- C3 ------------------------------------ *)

\* C3: no two records of the persisted collection have the same name, in
\* every state reachable by any interleaving of the six handlers.
C3_NamesUnique ==
    \A i, j \in 1 .. Len(file) :
        i # j => Get(file[i], "name") # Get(file[j], "name")

\* two requests have been answered, one of them a create_place that was
\* rejected or overtaken, and the file holds a record
C3_Witness ==
    /\ Len(file) >= 1
    /\ \A r \in Reqs : pc[r] = "done"
    /\ \E r, q \in Reqs :
          /\ r # q
          /\ req[r].op = "create_place" /\ req[q].op = "create_place"
          /\ req[r].new_place.name = req[q].new_place.name

(* ------------------------------- C4 ------------------------------------ *)

SameButMenu(a, b) ==
    /\ Get(a, "id") = Get(b, "id")
    /\ Get(a, "name") = Get(b, "name")
    /\ Get(a, "type") = Get(b, "type")
    /\ Get(a, "specialty") = Get(b, "specialty")

IdsUnique(places) ==
    \A i, j \in 1 .. Len(places) :
        i # j => Get(places[i], "id") # Get(places[j], "id")

\* every record a handler is about to write back is a record it loaded, with
\* the id it had in the file; only the record create_place appends is new
KeepsIds(r) ==
    (LoadStep(r) /\ pc'[r] = "acquire_w") =>
        \A i \in 1 .. Len(places_data'[r]) :
            \/ req[r].op = "create_place" /\ i = Len(places_data'[r])
            \/ \E j \in 1 .. Len(file) : SameButMenu(file[j], places_data'[r][i])

\* what a handler persists is its local copy
WritesCopy(r) == DumpStep(r) => file' = places_data[r]

\* C4: in every reachable state no two records of the file have the same
\* id, and no handler changes the id of a record it keeps: a record is
\* written back with the id it was loaded with, for as long as it is kept.
C4_IdsUniqueAndKept ==
    /\ [](IdsUnique(file))
    /\ [][\A r \in Reqs : KeepsIds(r) /\ WritesCopy(r)]_vars

\* an update_menu or delete_place has succeeded and a created record is
\* still in the file
C4_Witness ==
    /\ Len(file) >= 1
    /\ \E r \in Reqs :
          /\ req[r].op \in {"update_menu", "delete_place"}
          /\ pc[r] = "done"
          /\ response[r].status = 200

(* ------------------------------- C5 ------------------------------------ *)

\* C5: in a run of create_place calls made one after the other, the ids
\* returned by the successful ones are strictly increasing in the order of
\* the calls (hence pairwise distinct).
C5_ReturnedIdsIncreasing ==
    \A i, j \in 1 .. Len(returned) : i < j => returned[i] < returned[j]

\* three creates with three distinct names have succeeded in a row
C5_Witness == Len(returned) = 3 /\ Len(file) = 3

(* ------------------------------- C6 ------------------------------------ *)

\* C6: a create_place that passes the repeat check gives the new record the
\* id (maximum id over the records of the collection it loaded, 0 when that
\* collection is empty) + 1, and that record is the new_place it returns.
C6_NewIdIsMaxPlusOne ==
    [][\A r \in Reqs :
        /\ (LoadStep(r) /\ req[r].op = "create_place" /\ pc'[r] = "acquire_w") =>
              Get(places_data'[r][Len(places_data'[r])], "id") = MaxOf(IdsOf(file)) + 1
        /\ (DumpStep(r) /\ req[r].op = "create_place") =>
              /\ response'[r].status = 200
              /\ response'[r].body.new_place = places_data[r][Len(places_data[r])]
      ]_vars

\* a create has succeeded on a collection whose ids are not 1 .. length:
\* the file is two records long and its last id is 3
C6_Witness ==
    /\ Len(file) = 2
    /\ Get(file[2], "id") = 3
    /\ req[1].op = "create_place" /\ pc[1] = "done" /\ response[1].status = 200

(* ------------------------------- C7 ------------------------------------ *)

\* C7: a create_place whose name equals the name of a record of the
\* collection it loads is answered 400 'Your place is repeated.', ends there
\* without entering its write phase, and leaves the file as it was.
C7_DuplicateRejected ==
    [][\A r \in Reqs :
        ( /\ LoadStep(r)
          /\ req[r].op = "create_place"
          /\ req[r].new_place.name \in NamesOf(file) )
        => ( /\ pc'[r] = "done"
             /\ response'[r].status = 400
             /\ response'[r].body = "Your place is repeated."
             /\ file' = file )
      ]_vars

\* a create_place has been answered 400 while the name is in the file
C7_Witness ==
    \E r \in Reqs :
        /\ req[r].op = "create_place"
        /\ pc[r] = "done"
        /\ response[r].status = 400
        /\ req[r].new_place.name \in NamesOf(file)

(* ------------------------------- C8 ------------------------------------ *)

\* C8: an update_menu or delete_place whose name no record of the loaded
\* collection has ends at that step, never entering its write phase, and
\* the file after the step is the file before it.
C8_NotFoundWritesNothing ==
    [][\A r \in Reqs :
        ( /\ LoadStep(r)
          /\ req[r].op \in {"update_menu", "delete_place"}
          /\ req[r].place_name \notin NamesOf(file) )
        => (pc'[r] = "done" /\ file' = file)
      ]_vars

\* a delete_place of a name that is not in a non-empty file has been
\* answered with an error
C8_Witness ==
    /\ Len(file) >= 1
    /\ \E r \in Reqs :
          /\ req[r].op = "delete_place" /\ pc[r] = "done"
          /\ req[r].place_name \notin NamesOf(file)
          /\ response[r].status # 200

(* ------------------------------- C9 ------------------------------------ *)

\* the record or type that request r asks for is not in the file
TargetMissing(r) ==
    \/ /\ req[r].op \in {"update_menu", "delete_place"}
       /\ req[r].place_name \notin NamesOf(file)
    \/ /\ req[r].op = "random_place"
       /\ \A i \in 1 .. Len(file) : Get(file[i], "type") # req[r].type

\* C9: an update_menu, delete_place or random_place whose target is not in
\* the collection it loads is answered 404 (and not 500).
C9_NotFoundAnswers404 ==
    [][\A r \in Reqs :
        (LoadStep(r) /\ TargetMissing(r)) => response'[r].status = 404
      ]_vars

(* ------------------------------- C10 ----------------------------------- *)

\* the collection one handler leaves when it runs alone on places
RunAlone(places, request) ==
    IF request.op = "create_place"
    THEN IF IsRepeated(places, request.new_place.name)
         THEN places
         ELSE Append(places, OrderedDict(NewId(places), request.new_place))
    ELSE IF request.op = "update_menu"
    THEN IF FirstNamed(places, request.place_name) = 0
         THEN places
         ELSE SetMenu(places, request.place_name, Some(request.updated_menu))
    ELSE IF request.op = "delete_place"
    THEN IF FirstNamed(places, request.place_name) = 0
         THEN places
         ELSE DelPlace(places, request.place_name)
    ELSE places

RECURSIVE RunInOrder(_, _)
\* the collection left by the requests of order, run one at a time
RunInOrder(places, order) ==
    IF order = << >>
    THEN places
    ELSE RunInOrder(RunAlone(places, req[Head(order)]), Tail(order))

Orders(S) ==
    {o \in [1 .. Cardinality(S) -> S] : \A i, j \in DOMAIN o : i # j => o[i] # o[j]}

InBody(r) == pc[r] \in {"load", "dump"}

\* C11: the four handlers share one file_lock, and in every reachable state
\* at most one request is inside the body of locked_file_operation; that
\* request is the holder of the lock.
C11_MutualExclusion ==
    /\ \A r, q \in Reqs : InBody(r) /\ InBody(q) => r = q
    /\ \A r \in Reqs : InBody(r) => file_lock = r

\* one request is inside the body while another waits at the acquire
C11_Witness ==
    \E r, q \in Reqs :
        /\ r # q
        /\ InBody(r)
        /\ pc[q] \in {"acquire_r", "acquire_w"}
        /\ req[r].op # req[q].op

\* C12: on every exit path of a handler that acquired file_lock (success,
\* duplicate name, not found, malformed file content, failure to open, read
\* or write the file) the lock is released when the handler returns or
\* raises: a request that is not running never holds the lock.
C12_LockReleasedOnExit ==
    \A r \in Reqs : pc[r] \in {"idle", "done"} => file_lock # r

\* update_menu has raised out of its write block because the write failed
C12_Witness ==
    \E r \in Reqs :
        /\ pc[r] = "done"
        /\ req[r].op = "update_menu"
        /\ response[r].status = 500
        /\ response[r].body = OSError.detail
        /\ disk # "valid"
        /\ file_lock = 0

\* C13: after a successful update_menu(name, newMenu) the menu of the first
\* record named name is exactly newMenu, whatever menu it had before (null,
\* empty or non-empty): the old items are not kept.
C13_UpdateReplacesMenu ==
    [][\A r \in Reqs :
        (DumpStep(r) /\ req[r].op = "update_menu" /\ response'[r].status = 200)
            => LET k == FirstNamed(file', req[r].place_name)
               IN  /\ k # 0
                   /\ k = FirstNamed(file, req[r].place_name)
                   /\ Get(file'[k], "menu") = Some(req[r].updated_menu)]_vars

\* update_menu has replaced the menu of a record that is not the first one
C13_Witness ==
    \E r \in Reqs :
        /\ pc[r] = "done"
        /\ req[r].op = "update_menu"
        /\ response[r].status = 200
        /\ req[r].updated_menu = Menu1
        /\ FirstNamed(file, req[r].place_name) > 1
        /\ Get(file[FirstNamed(file, req[r].place_name)], "menu") = Some(Menu1)

\* r is a query_menu call that has been answered; the file is as it read it
Queried(r) == pc[r] = "done" /\ req[r].op = "query_menu"

\* C14: for every collection and every name, if some record has that name
\* then query_menu returns the menu of the first such record, wherever the
\* record is in the collection (first, middle or last).
C14_QueryReturnsFirstMatch ==
    \A r \in Reqs :
        (Queried(r) /\ FirstNamed(file, req[r].place_name) # 0)
            => /\ response[r].status = 200
               /\ response[r].body =
                    [menu |-> Get(file[FirstNamed(file, req[r].place_name)], "menu")]

\* C15: for every collection, the empty one included, query_menu with a name
\* that no record has returns the "not registered" status as a normal
\* result and does not fail the request.
C15_UnknownNameSoftFails ==
    \A r \in Reqs :
        (Queried(r) /\ FirstNamed(file, req[r].place_name) = 0)
            => /\ response[r].status = 200
               /\ response[r].body = [status |-> "not registered"]

\* the records of places whose type is t, as get_places returns records
OfType(places, t) ==
    LET sel == SelectSeq(places, LAMBDA p : Get(p, "type") = t)
    IN  [i \in 1 .. Len(sel) |-> PlaceResponse(sel[i])]

\* C16: for every collection and every provided filter string t,
\* get_places(t) returns exactly the records whose type equals t, in
\* collection order (the empty sequence when none match); get_places without
\* a filter returns every record in collection order.
C16_ListingFiltersByType ==
    \A r \in Reqs :
        (pc[r] = "done" /\ req[r].op = "get_places")
            => /\ response[r].status = 200
               /\ response[r].body =
                    IF req[r].type = None
                    THEN [i \in 1 .. Len(file) |-> PlaceResponse(file[i])]
                    ELSE OfType(file, req[r].type[1])

\* C17: a successful delete_place(name) removes the first record named
\* name and nothing else: every other record is kept unchanged and in the
\* same relative order.
C17_DeleteRemovesOneRecord ==
    [][\A r \in Reqs :
        (DumpStep(r) /\ req[r].op = "delete_place" /\ response'[r].status = 200)
            => LET k == FirstNamed(file, req[r].place_name)
               IN  /\ k # 0
                   /\ Len(file') = Len(file) - 1
                   /\ \A i \in 1 .. Len(file') :
                        file'[i] = IF i < k THEN file[i] ELSE file[i + 1]]_vars

\* delete_place has removed the middle one of three records
C17_Witness ==
    \E r \in Reqs :
        /\ pc[r] = "done"
        /\ req[r].op = "delete_place"
        /\ response[r].status = 200
        /\ Len(file) = 2
        /\ Get(file[1], "id") = 1
        /\ Get(file[2], "id") = 3
        /\ FirstNamed(file, req[r].place_name) = 0

\* C18: random_place(t) reports NotFound (HTTP 404) exactly when no record
\* of the collection has type t; otherwise the record it returns is a member
\* of the collection whose type is t; in both cases the file is not written.
C18_RandomPick ==
    [][\A r \in Reqs :
        (LoadStep(r) /\ req[r].op = "random_place")
            => /\ file' = file
               /\ IF TargetMissing(r)
                  THEN response'[r].status = 404
                  ELSE /\ response'[r].status = 200
                       /\ \E i \in 1 .. Len(file) :
                            /\ response'[r].body = [random_place |-> file[i]]
                            /\ Get(file[i], "type") = req[r].type]_vars

\* C19: if the persist step of create_place, update_menu or delete_place
\* fails at any point after it started (also after the file was opened for
\* writing), the file still holds the complete prior collection: a failed
\* persist never leaves an empty or partially written file.
C19_FailedPersistKeepsPrior ==
    [][\A r \in Reqs :
        (DumpStep(r) /\ response'[r].status # 200)
            => (disk' = "valid" /\ file' = file)]_vars

\* request r opens the file and loads it in this step
ReadStep(r) ==
    \/ LoadStep(r)
    \/ /\ pc[r] = "idle"
       /\ pc'[r] = "done"
       /\ req'[r].op \in {"get_places", "query_menu"}

\* C20: the file is a complete valid encoding of the collection whenever an
\* operation reads it, get_places and query_menu (which take no lock)
\* included: no read finds the file truncated or partly written.
C20_ReadsFindValidFile ==
    [][\A r \in Reqs : ReadStep(r) => disk = "valid"]_vars

(* ------------------------------ C21 .. C30 ----------------------------- *)

\* C21: when the content of the file cannot be parsed, every operation
\* (get_places, query_menu, create_place, update_menu, delete_place,
\* random_place) that reads it ends there with an error answer to the
\* caller, writes nothing, and leaves the file content as it was and
\* file_lock free as it was before the operation.
C21_MalformedStorageAborts ==
    [][\A r \in Reqs :
        (ReadStep(r) /\ disk # "valid")
            => /\ pc'[r] = "done"
               /\ response'[r].status >= 400
               /\ file' = file
               /\ disk' = disk
               /\ file_lock' = 0]_vars

\* create_place has been refused because json.load could not parse the file
C21_Witness ==
    \E r \in Reqs :
        /\ pc[r] = "done"
        /\ req[r].op = "create_place"
        /\ disk # "valid"
        /\ io = "ok"
        /\ response[r].status = 500
        /\ response[r].body = JSONDecodeError.detail
        /\ file_lock = 0

\* the records of the reference scenario as create_place stores them
RecordA == OrderedDict(1, PlaceA)
RecordB == OrderedDict(2, PlaceB)

\* request r is a get_places call that is answered in this step
GetStep(r) == pc[r] = "idle" /\ pc'[r] = "done" /\ req'[r].op = "get_places"

\* C22: the reference scenario.  From the empty store, create A (food)
\* returns a record with id 1 and menu null; then create B (drink) returns
\* id 2; then get_places('food') returns only the record with id 1; then
\* delete A succeeds and get_places() returns only the record with id 2;
\* then a second delete A reports NotFound (HTTP 404).  Each call is stated
\* at the file content the calls before it leave.
C22_ReferenceScenario ==
    [][\A r \in Reqs :
        /\ (DumpStep(r) /\ req[r].op = "create_place" /\ file = << >>
                /\ req[r].new_place = PlaceA)
            => /\ response'[r].status = 200
               /\ response'[r].body.new_place = RecordA
               /\ Get(response'[r].body.new_place, "id") = 1
               /\ Get(response'[r].body.new_place, "menu") = None
               /\ file' = <<RecordA>>
        /\ (DumpStep(r) /\ req[r].op = "create_place" /\ file = <<RecordA>>
                /\ req[r].new_place = PlaceB)
            => /\ response'[r].status = 200
               /\ Get(response'[r].body.new_place, "id") = 2
               /\ file' = <<RecordA, RecordB>>
        /\ (GetStep(r) /\ req'[r].type = Some("food") /\ file = <<RecordA, RecordB>>)
            => /\ response'[r].status = 200
               /\ response'[r].body = <<PlaceResponse(RecordA)>>
        /\ (DumpStep(r) /\ req[r].op = "delete_place" /\ file = <<RecordA, RecordB>>)
            => /\ response'[r].status = 200
               /\ file' = <<RecordB>>
        /\ (GetStep(r) /\ req'[r].type = None /\ file = <<RecordB>>)
            => /\ response'[r].status = 200
               /\ response'[r].body = <<PlaceResponse(RecordB)>>
        /\ (LoadStep(r) /\ req[r].op = "delete_place" /\ file = <<RecordB>>)
            => /\ response'[r].status = 404
               /\ file' = file]_vars

\* records a and b have the same keys in the same order and the same value
\* for every key but "menu"
SameExceptMenu(a, b) ==
    /\ Len(a) = Len(b)
    /\ \A j \in 1 .. Len(a) :
        /\ a[j][1] = b[j][1]
        /\ a[j][1] # "menu" => a[j][2] = b[j][2]

\* C23: a successful update_menu(name, newMenu) changes only the menu field
\* of the first record named name: that record's id, name, type and
\* specialty, every other record, the number of records and their order
\* are unchanged.
C23_UpdateFrame ==
    [][\A r \in Reqs :
        (DumpStep(r) /\ req[r].op = "update_menu" /\ response'[r].status = 200)
            => LET k == FirstNamed(file, req[r].place_name)
               IN  /\ Len(file') = Len(file)
                   /\ \A i \in 1 .. Len(file) :
                        IF i = k
                        THEN SameExceptMenu(file[i], file'[i])
                        ELSE file'[i] = file[i]]_vars

\* update_menu has changed the second of two records and the first one
\* still has no menu
C23_Witness ==
    \E r \in Reqs :
        /\ pc[r] = "done"
        /\ req[r].op = "update_menu"
        /\ response[r].status = 200
        /\ Len(file) = 2
        /\ FirstNamed(file, req[r].place_name) = 2
        /\ Get(file[1], "menu") = None
        /\ Get(file[2], "menu") = Some(Menu2)

\* the keys of dict d in their order
KeysOf(d) == [j \in 1 .. Len(d) |-> d[j][1]]

\* C24: a successful create_place leaves every stored record unchanged and
\* in its position and adds exactly one record at the end; that record,
\* which is also the returned new_place, has the fields id, name, type,
\* specialty, menu in this order, with name, type, specialty and menu equal
\* to the input, menu being null when the input has none.
C24_CreateAppends ==
    [][\A r \in Reqs :
        (DumpStep(r) /\ req[r].op = "create_place" /\ response'[r].status = 200)
            => LET new == file'[Len(file')]
                   input == req[r].new_place
               IN  /\ Len(file') = Len(file) + 1
                   /\ \A i \in 1 .. Len(file) : file'[i] = file[i]
                   /\ KeysOf(new) = <<"id", "name", "type", "specialty", "menu">>
                   /\ Get(new, "name") = input.name
                   /\ Get(new, "type") = input.type
                   /\ Get(new, "specialty") = input.specialty
                   /\ Get(new, "menu") = input.menu
                   /\ response'[r].body.new_place = new]_vars

\* create_place without a menu has added a third record, stored with a null
\* menu after a record that has one
C24_Witness ==
    \E r \in Reqs :
        /\ pc[r] = "done"
        /\ req[r].op = "create_place"
        /\ response[r].status = 200
        /\ req[r].new_place.menu = None
        /\ Len(file) = 3
        /\ Get(file[3], "menu") = None
        /\ Get(file[2], "menu") # None
        /\ response[r].body.new_place = file[3]

\* C25: starting from the empty collection, after any sequence of
\* non-overlapping create_place, update_menu and delete_place calls the ids
\* of the stored records are strictly increasing by position, so the id of
\* the last record is the maximum id and "last record's id + 1" is
\* "maximum id + 1".
C25_IdsIncreasingByPosition ==
    /\ \A i, j \in 1 .. Len(file) :
        i < j => Get(file[i], "id") < Get(file[j], "id")
    /\ file # << >> =>
        /\ Get(file[Len(file)], "id") = MaxOf(IdsOf(file))
        /\ NewId(file) = MaxOf(IdsOf(file)) + 1

\* a create_place after the deletion of the first record: ids 2 and 3
C25_Witness ==
    /\ Len(file) = 2
    /\ Get(file[1], "id") = 2
    /\ Get(file[2], "id") = 3
    /\ \A r \in Reqs : pc[r] \in {"idle", "done"}

\* the ids that create_place has returned so far
Returned == {returned[i] : i \in 1 .. Len(returned)}

\* C26: ids of deleted records are assigned again.  A successful
\* create_place gives an id that no stored record has, but when the record
\* with the highest id ever returned is no longer stored, the id it gives is
\* one that was returned before; so ids are unique among the records
\* stored, not over the lifetime of the store (create A, create B, delete
\* B, create C: C gets the id B had).
C26_DeletedIdsAssignedAgain ==
    [][\A r \in Reqs :
        (DumpStep(r) /\ req[r].op = "create_place" /\ response'[r].status = 200)
            => LET id == Get(file'[Len(file')], "id")
               IN  /\ id \notin IdsOf(file)
                   /\ IdsUnique(file')
                   /\ MaxOf(IdsOf(file)) < MaxOf(Returned) => id \in Returned]_vars

\* create A, create B, delete B, create C: C is stored with id 2, which B had
C26_Witness ==
    /\ returned = <<1, 2, 2>>
    /\ Len(file) = 2
    /\ Get(file[1], "name") = "A" /\ Get(file[1], "id") = 1
    /\ Get(file[2], "name") = "C" /\ Get(file[2], "id") = 2

\* the handlers that take file_lock
LockUsers == {"create_place", "update_menu", "delete_place", "random_place"}

\* C27: no handler requests file_lock while it holds it (the lock of the
\* read block is released before the write block asks for it), and under
\* weak fairness every started create_place, update_menu, delete_place and
\* random_place finishes, with file_lock not held by it any more; once all
\* have finished the lock is free.
C27_NoDeadlockAndCompletion ==
    /\ [](\A r \in Reqs : pc[r] \in {"acquire_r", "acquire_w"} => file_lock # r)
    /\ \A r \in Reqs : Started(r) ~> (pc[r] = "done" /\ file_lock # r)
    /\ []((\A r \in Reqs : ~Started(r)) => file_lock = 0)

\* all requests were calls of lock-taking handlers that had to write, and
\* all have finished
C27_Witness ==
    /\ \A r \in Reqs :
        /\ pc[r] = "done"
        /\ req[r].op \in {"create_place", "update_menu", "delete_place"}
        /\ response[r].status = 200
    /\ file_lock = 0

\* C28: no handler is at a suspension point while it holds file_lock, so
\* with all handlers on one event loop a request for file_lock never finds
\* it held, and between the call of a lock-taking handler and its answer
\* (its load, in-memory change and persist) no other handler takes a step.
C28_HandlersAtomicOnOneLoop ==
    /\ [](\A r \in Reqs : file_lock = r => ~Suspended(r))
    /\ [](\A r \in Reqs : pc[r] \in {"acquire_r", "acquire_w"} => file_lock = 0)
    /\ [][\A r, q \in Reqs :
            (Started(r) /\ q # r) => (pc'[q] = pc[q] /\ req'[q] = req[q])]_vars

\* every request was a create_place, each ran from its call to its answer
\* on the loop, and all the records are stored with ids 1, 2, ...
C28_Witness ==
    /\ \A r \in Reqs :
        /\ pc[r] = "done"
        /\ req[r].op = "create_place"
        /\ response[r].status = 200
    /\ IdsOf(file) = 1 .. NReq

\* C29: get_places treats the empty string given as type filter as no
\* filter: get_places('') returns every record of the collection, in order,
\* not the records whose type is the empty string (of which there are none).
C29_EmptyFilterListsAll ==
    \A r \in Reqs :
        (pc[r] = "done" /\ req[r].op = "get_places" /\ req[r].type = Some(""))
            => /\ response[r].status = 200
               /\ response[r].body = [i \in 1 .. Len(file) |-> PlaceResponse(file[i])]
               /\ Len(response[r].body) = Len(file)

\* get_places('') has listed a collection of two records of different types
C29_Witness ==
    \E r \in Reqs :
        /\ pc[r] = "done"
        /\ req[r].op = "get_places"
        /\ req[r].type = Some("")
        /\ Len(file) = 2
        /\ Get(file[1], "type") # Get(file[2], "type")
        /\ Len(response[r].body) = 2

\* the run of the graph is over: END was reached or a node raised
RunOver == agent.node \in {"END", "raised", "answered"}

\* extract_dates_node has recorded an error
ErrorRecorded == agent.state.error # None

\* C30: every run of the date-extraction graph starts at the extract node;
\* if extract_dates_node records an error the run goes straight to END, the
\* format node never runs, formatted_output stays unset and /extract
\* answers success=false with an empty extracted_dates list; if no error is
\* recorded the format node runs exactly once and then the run ends.
C30_GraphOrdering ==
    /\ agent.ran # << >> => agent.ran[1] = "extract"
    /\ (ErrorRecorded /\ agent.ran # << >>)
        => /\ RunOver
           /\ agent.node # "raised"
           /\ agent.ran = <<"extract">>
           /\ agent.state.formatted_output = None
           /\ agent.node = "answered"
                => /\ agent.answer.status = 200
                   /\ agent.answer.success = FALSE
                   /\ agent.answer.extracted_dates = 0
    /\ (~ErrorRecorded /\ agent.ran # << >>)
        => /\ agent.node = "format" => agent.ran = <<"extract">>
           /\ RunOver => agent.ran = <<"extract", "format">>
           /\ agent.node \in {"format", "END", "raised", "answered"}

\* /extract has answered success=false for a reply of the model that was
\* not the JSON of a dict
C30_Witness ==
    /\ agent.node = "answered"
    /\ ErrorRecorded
    /\ agent.answer.success = FALSE
    /\ agent.ran = <<"extract">>

====
